---- MODULE Spec2Model ----
(***************************************************************************)
(* Prompt analysis engine: heuristic detectors (RuleBasedAnalyzer), the    *)
(* positional deduplication of issues (HybridAnalyzer._deduplicate_issues),*)
(* the quality score, and the orchestration of the optional deep analysis  *)
(* by the LLM collaborator (HybridAnalyzer.analyze, analyze_with_llm).     *)
(*                                                                         *)
(* A text is a sequence of tokens joined by single blanks.  A token is a   *)
(* run of word characters (its core) followed by punctuation; the regular  *)
(* expressions of PatternMatcher are evaluated token by token.             *)
(***************************************************************************)
EXTENDS Integers, Sequences, FiniteSets, TLC

VARIABLES
    pc,          \* position of the computation under way
    text,        \* the prompt text (a sequence of tokens)
    use_llm,     \* the use_llm flag of the request
    issues,      \* the issue list handed to the function under way
    rule_issues, \* HybridAnalyzer.analyze: result of rule_analyzer.analyze
    llm_reply,   \* what the collaborator call will produce
    llm_issues,  \* HybridAnalyzer.analyze: result of analyze_with_llm
    nlp_fails,   \* TRUE when the spaCy pipeline raises on this text
    pron_tags,   \* the tagger: which candidate words it tags PRON
    result,      \* the returned issue list
    refused,     \* second application of _deduplicate_issues (re-fusion)
    score,       \* the returned quality score
    raised,      \* the exception the operation ended with, or None
    waited,      \* seconds the await of the collaborator has lasted
    cancelled,   \* TRUE when the request was cancelled during the await
    reqs,        \* the requests at an entry point, each with its position
    cache,       \* CacheManager: enabled, client, the store behind it
    ws           \* WebSocketManager: active_connections, the broadcast

vars == <<pc, text, use_llm, issues, rule_issues, llm_reply, llm_issues,
          nlp_fails, pron_tags, result, refused, score, raised, waited,
          cancelled, reqs, cache, ws>>

None == "none"

(***************************************************************************)
(* Generic helpers.                                                        *)
(***************************************************************************)
\* the exception classes derived from Exception
ExceptionClasses ==
    {"APIError", "IndexError", "TypeError", "JSONDecodeError", "AttributeError",
     "KeyError", "ValueError", "ValidationError", "ConnectionError",
     "RuntimeError", "NameError"}
\* asyncio.CancelledError derives from BaseException, not from Exception
BaseExceptionClasses == ExceptionClasses \cup {"CancelledError"}

Min(a, b) == IF a <= b THEN a ELSE b
Max(a, b) == IF a >= b THEN a ELSE b

RECURSIVE SeqsUpTo(_, _)
SeqsUpTo(S, n) ==
    IF n = 0 THEN {<<>>}
    ELSE LET shorter == SeqsUpTo(S, n - 1)
         IN  shorter \cup {Append(s, x) : s \in {t \in shorter : Len(t) = n - 1}, x \in S}

(***************************************************************************)
(* Tokens.  Shape(w) is <<core, punct>>: the lower-cased run of word       *)
(* characters the token starts with, and the punctuation that follows it.  *)
(***************************************************************************)
Vocab ==
    {"analyze", "Analyze", "check", "review", "data", "please", "summarize",
     "you", "You", "are", "act", "as", "a", "an", "expert", "expert.",
     "specifically", "with", "charts.", "it", "this", "the",
     "format", "json", "1.", "2)", "-", "first", "tell", "me", "about",
     "give", "insights", "on", "make", "something", "look", "at", "â"}

Shape(w) ==
    CASE w = "Analyze" -> <<"analyze", "">>
      [] w = "You"     -> <<"you", "">>
      [] w = "expert." -> <<"expert", ".">>
      [] w = "charts." -> <<"charts", ".">>
      [] w = "1."      -> <<"1", ".">>
      [] w = "2)"      -> <<"2", ")">>
      [] w = "-"       -> <<"", "-">>
      [] OTHER         -> <<w, "">>

CoreOf(w)  == Shape(w)[1]
PunctOf(w) == Shape(w)[2]
\* the token is one run of word characters: white space follows it directly
Clean(w) == PunctOf(w) = "" /\ CoreOf(w) # ""
\* the token starts with a word character (\w+ matches at its start)
StartsWord(w) == CoreOf(w) # ""
\* the core ends with a digit (\d+ matches right before the punctuation)
CoreEndsDigit(w) == CoreOf(w) \in {"1", "2"}
\* the last character of the token is one of the bullet class [-â€¢*]; of
\* these â is a word character
EndsBullet(w) ==
    \/ PunctOf(w) \in {"-", "*"}
    \/ PunctOf(w) = "" /\ CoreOf(w) \in {"â"}

\* the characters of tokens lo..hi of t joined by blanks
RECURSIVE SpanLen(_, _, _)
SpanLen(t, lo, hi) ==
    IF lo > hi THEN 0
    ELSE IF lo = hi THEN Len(t[lo])
    ELSE LET mid == (lo + hi) \div 2
         IN  SpanLen(t, lo, mid) + 1 + SpanLen(t, mid + 1, hi)
\* character offset of token i of t, and the length of the joined text
Offset(t, i) == IF i <= 1 THEN 0 ELSE SpanLen(t, 1, i - 1) + 1
TextLen(t) == IF Len(t) = 0 THEN 0 ELSE Offset(t, Len(t)) + Len(t[Len(t)])
\* offset right after the core of token i (where a match ending in \b ends)
CoreEnd(t, i) == Offset(t, i) + Len(CoreOf(t[i]))

\* token i exists and is exactly the word c / has the core c
IsWord(t, i, c)  == i \in 1..Len(t) /\ Clean(t[i]) /\ CoreOf(t[i]) = c
HasCore(t, i, c) == i \in 1..Len(t) /\ CoreOf(t[i]) = c
InWords(t, i, S) == i \in 1..Len(t) /\ Clean(t[i]) /\ CoreOf(t[i]) \in S
InCores(t, i, S) == i \in 1..Len(t) /\ CoreOf(t[i]) \in S
WordAt(t, i)     == i \in 1..Len(t) /\ StartsWord(t[i])

(***************************************************************************)
(* PatternMatcher.                                                         *)
(***************************************************************************)
\* PatternMatcher.count_words: len(text.split())
count_words(t) == Len(t)

\* PatternMatcher.has_specific_instructions:
\*   \d+[\.)]\s+\w+   or   [-â€¢*]\s+\w+
NumberedAt(t, i) ==
    /\ i \in 1..Len(t)
    /\ CoreEndsDigit(t[i]) /\ PunctOf(t[i]) \in {".", ")"}
    /\ WordAt(t, i + 1)
BulletAt(t, i) ==
    /\ i \in 1..Len(t)
    /\ EndsBullet(t[i])
    /\ WordAt(t, i + 1)
has_specific_instructions(t) ==
    \E i \in 1..Len(t) : NumberedAt(t, i) \/ BulletAt(t, i)

\* the cores of Vocab that start with "expert" or "specialist"
ExpertLike == {"expert"}
\* ROLE_PATTERNS, matched at token i:
\*   \byou are\s+(a|an)\s+\w+ ; \bact as\s+(a|an)\s+\w+ ;
\*   \bas\s+(a|an)\s+\w+\s+(expert|specialist)
RoleAt(t, i) ==
    \/ /\ IsWord(t, i, "you") /\ IsWord(t, i + 1, "are")
       /\ InWords(t, i + 2, {"a", "an"}) /\ WordAt(t, i + 3)
    \/ /\ IsWord(t, i, "act") /\ IsWord(t, i + 1, "as")
       /\ InWords(t, i + 2, {"a", "an"}) /\ WordAt(t, i + 3)
    \/ /\ IsWord(t, i, "as") /\ InWords(t, i + 1, {"a", "an"})
       /\ i + 2 \in 1..Len(t) /\ Clean(t[i + 2])
       /\ InCores(t, i + 3, ExpertLike)
\* contains_pattern(text, ROLE_PATTERNS)
has_role(t) == \E i \in 1..Len(t) : RoleAt(t, i)

(***************************************************************************)
(* Issues (PromptIssue).  An id is its provenance prefix ("issue-" for the *)
(* rule-based analyzer, "llm-" for the collaborator) and the uuid part,    *)
(* modelled by a serial number.                                            *)
(***************************************************************************)
Severity  == {"critical", "medium", "low"}
IssueType == {"vague", "missing_context", "inefficient", "ambiguous",
              "missing_role", "missing_format", "too_short", "too_long"}
Impact    == {"high", "medium", "low"}
Prefixes  == {"issue-", "llm-"}

Issue(prefix, n, start, end, type, severity) ==
    [id |-> [prefix |-> prefix, n |-> n], start |-> start, end |-> end,
     type |-> type, severity |-> severity]

(***************************************************************************)
(* RuleBasedAnalyzer.calculate_quality_score                               *)
(***************************************************************************)
CriticalPenalty == 20
MediumPenalty == 10
OtherPenalty == 5
Bonus == 5
BaseScore == 100
BonusWords == 20

\* the final clamp without its lower bound: min(100, base_score)
ClampNoFloor(x) == Min(BaseScore, x)
\* the final clamp with min and max exchanged: min(0, max(100, base_score))
ClampSwapped(x) == Min(0, Max(BaseScore, x))
\* max(0, min(100, base_score))
Clamp(x) == Max(0, Min(BaseScore, x))

\* base_score = min(100, base_score + 5)
\* a bonus that also floors the running total at 0
AddBonusFloored(x) == Max(0, Min(BaseScore, x + Bonus))
AddBonus(x) == Min(BaseScore, x + Bonus)

\* the for loop over the issues: the running total after the first k issues
RECURSIVE Deducted(_, _)
Deducted(is, k) ==
    IF k = 0 THEN BaseScore
    ELSE LET prev == Deducted(is, k - 1)
         IN  IF is[k].severity = "critical" THEN prev - CriticalPenalty
             ELSE IF is[k].severity = "medium" THEN prev - MediumPenalty
             ELSE prev - OtherPenalty

calculate_quality_score(t, is) ==
    LET s0 == Deducted(is, Len(is))
        s1 == IF count_words(t) >= BonusWords THEN AddBonus(s0) ELSE s0
        s2 == IF has_specific_instructions(t) THEN AddBonus(s1) ELSE s1
        s3 == IF has_role(t) THEN AddBonus(s2) ELSE s2
    IN  Clamp(s3)

(***************************************************************************)
(* HybridAnalyzer._deduplicate_issues                                      *)
(***************************************************************************)
BucketWidth == 5

\* a key without tolerance: (issue.start, issue.end)
ExactKey(i) == <<i.start, i.end>>
\* key = (issue.start // 5 * 5, issue.end // 5 * 5)
BucketKey(i) ==
    <<(i.start \div BucketWidth) * BucketWidth, (i.end \div BucketWidth) * BucketWidth>>

\* the keys of position_groups in insertion order (a dict keeps it)
RECURSIVE GroupKeys(_, _)
GroupKeys(is, k) ==
    IF k = 0 THEN <<>>
    ELSE LET prev == GroupKeys(is, k - 1)
         IN  IF \E j \in 1..Len(prev) : prev[j] = BucketKey(is[k])
             THEN prev ELSE Append(prev, BucketKey(is[k]))

\* position_groups[key]: the issues of the bucket, in input order
Group(is, key) == SelectSeq(is, LAMBDA i : BucketKey(i) = key)

\* severity_order.get(x.severity.value, 0)
SeverityOrder(sev) ==
    CASE sev = "critical" -> 3 [] sev = "medium" -> 2 [] sev = "low" -> 1 [] OTHER -> 0
LlmBit(i) == IF i.id.prefix = "llm-" THEN 1 ELSE 0
\* the key of max(): (severity rank, 1 if id starts with "llm-" else 0)
RankKey(i) == <<SeverityOrder(i.severity), LlmBit(i)>>
\* tuple comparison a > b
KeyGreater(a, b) == a[1] > b[1] \/ (a[1] = b[1] /\ a[2] > b[2])
KeyGreaterEq(a, b) == a[1] > b[1] \/ (a[1] = b[1] /\ a[2] >= b[2])

\* max(group, key=...): the first element with the greatest key
RECURSIVE BestOf(_, _)
BestOf(g, k) ==
    IF k = 1 THEN g[1]
    ELSE LET best == BestOf(g, k - 1)
         IN  IF KeyGreater(RankKey(g[k]), RankKey(best)) THEN g[k] ELSE best

\* a max() that keeps the last of the elements with the greatest key
RECURSIVE BestOfLast(_, _)
BestOfLast(g, k) ==
    IF k = 1 THEN g[1]
    ELSE LET best == BestOfLast(g, k - 1)
         IN  IF KeyGreaterEq(RankKey(g[k]), RankKey(best)) THEN g[k] ELSE best

\* the first issue of the bucket, raised to the severity of the best one
SelectMerged(g) == [g[1] EXCEPT !.severity = BestOf(g, Len(g)).severity]
\* the first issue of the bucket, whatever its severity
SelectFirstOfGroup(g) == g[1]
\* the last of the issues with the greatest key
SelectBestLast(g) == IF Len(g) = 1 THEN g[1] ELSE BestOfLast(g, Len(g))
SelectBest(g) == IF Len(g) = 1 THEN g[1] ELSE BestOf(g, Len(g))

\* list.sort(key=lambda x: x.start): stable, ascending
RECURSIVE InsertByStart(_, _)
InsertByStart(sorted, x) ==
    IF sorted = <<>> THEN <<x>>
    ELSE IF sorted[Len(sorted)].start <= x.start THEN Append(sorted, x)
    ELSE Append(InsertByStart(SubSeq(sorted, 1, Len(sorted) - 1), x), sorted[Len(sorted)])
RECURSIVE SortFirst(_, _)
SortFirst(is, k) ==
    IF k = 0 THEN <<>> ELSE InsertByStart(SortFirst(is, k - 1), is[k])
\* a sort that puts an element before the equal ones already placed
RECURSIVE InsertBeforeEqual(_, _)
InsertBeforeEqual(sorted, x) ==
    IF sorted = <<>> THEN <<x>>
    ELSE IF sorted[Len(sorted)].start < x.start THEN Append(sorted, x)
    ELSE Append(InsertBeforeEqual(SubSeq(sorted, 1, Len(sorted) - 1), x), sorted[Len(sorted)])
RECURSIVE SortFirstUnstable(_, _)
SortFirstUnstable(is, k) ==
    IF k = 0 THEN <<>> ELSE InsertBeforeEqual(SortFirstUnstable(is, k - 1), is[k])
SortTiesReversed(is) == SortFirstUnstable(is, Len(is))
\* the list left as collected
NoSort(is) == is
SortByStart(is) == SortFirst(is, Len(is))

_deduplicate_issues(is) ==
    IF is = <<>> THEN <<>>
    ELSE LET keys == GroupKeys(is, Len(is))
             deduplicated == [j \in 1..Len(keys) |-> SelectBest(Group(is, keys[j]))]
         IN  SortByStart(deduplicated)

(***************************************************************************)
(* RuleBasedAnalyzer: the six checks.  A check returns the spans of the    *)
(* issues it emits; analyze numbers them in the order of creation.         *)
(***************************************************************************)
ContextWindow == 50
MinWords == 5
MaxWords == 500
FormatMinWords == 10
StructureMinWords == 15
PronounWindow == 2

Found(start, end, type, severity) ==
    [start |-> start, end |-> end, type |-> type, severity |-> severity]

\* cores of Vocab that start with specifically|by|with|for|the|this
\* (the negative lookahead of the first vague pattern has no closing \b)
VagueFollowers == {"specifically", "with", "the", "this", "format"}
\* cores of Vocab that start with "on"
OnLike == {"on"}
VagueVerbs == {"analyze", "check", "review", "examine"}

\* token i is directly followed by white space and a token of S
FollowedBy(t, i, S) == Clean(t[i]) /\ InCores(t, i + 1, S)

NoMatch == [hit |-> FALSE, start |-> 0, end |-> 0, last |-> 0]
Match(t, i, j) == [hit |-> TRUE, start |-> Offset(t, i), end |-> CoreEnd(t, j), last |-> j]

\* VAGUE_PATTERNS[k] matched at token i: the match from token i to token j
VagueMatch(t, k, i) ==
    CASE k = 1 ->
           IF InCores(t, i, VagueVerbs) /\ ~FollowedBy(t, i, VagueFollowers)
           THEN Match(t, i, i)
           ELSE IF IsWord(t, i, "look") /\ HasCore(t, i + 1, "at")
                   /\ ~FollowedBy(t, i + 1, VagueFollowers)
           THEN Match(t, i, i + 1)
           ELSE NoMatch
      [] k = 2 ->
           LET j == IF IsWord(t, i + 1, "me") THEN i + 2 ELSE i + 1
           IN  IF InWords(t, i, {"give", "provide", "show"})
                  /\ InCores(t, j, {"insight", "insights"})
                  /\ ~FollowedBy(t, j, OnLike)
               THEN Match(t, i, j)
               ELSE NoMatch
      [] k = 3 ->
           IF InWords(t, i, {"do", "make", "create"}) /\ HasCore(t, i + 1, "something")
           THEN Match(t, i, i + 1)
           ELSE NoMatch
      [] OTHER ->
           IF IsWord(t, i, "tell") /\ IsWord(t, i + 1, "me") /\ HasCore(t, i + 2, "about")
           THEN Match(t, i, i + 2)
           ELSE NoMatch

\* the matches of VAGUE_PATTERNS[k], from left to right
PatternMatches(t, k) ==
    LET at == SelectSeq([i \in 1..Len(t) |-> i], LAMBDA i : VagueMatch(t, k, i).hit)
    IN  [n \in 1..Len(at) |-> VagueMatch(t, k, at[n])]
\* PatternMatcher.find_matches(text, VAGUE_PATTERNS): pattern by pattern
find_matches(t) ==
    PatternMatches(t, 1) \o PatternMatches(t, 2) \o PatternMatches(t, 3)
      \o PatternMatches(t, 4)

\* length of the specificity marker that starts in token j, 0 when none does:
\* 'specifically', 'focusing', 'particularly', 'especially' in one token,
\* 'by analyzing', 'with emphasis' across two
MarkerLen(t, j) ==
    IF InCores(t, j, {"specifically", "focusing", "particularly", "especially"})
    THEN Len(CoreOf(t[j]))
    ELSE IF IsWord(t, j, "by") /\ InCores(t, j + 1, {"analyzing"}) THEN 12
    ELSE IF IsWord(t, j, "with") /\ InCores(t, j + 1, {"emphasis"}) THEN 13
    ELSE 0

\* any(word in text[end:end+50].lower() for word in [...])
has_specificity(t, m) ==
    \E j \in (m.last + 1)..Len(t) :
        /\ MarkerLen(t, j) > 0
        /\ Offset(t, j) + MarkerLen(t, j) <= m.end + ContextWindow

\* the check without the look at the context after the match
check_vague_all(t) ==
    LET ms == find_matches(t)
    IN  [k \in 1..Len(ms) |-> Found(ms[k].start, ms[k].end, "vague", "medium")]
_check_vague_instructions(t) ==
    LET ms   == find_matches(t)
        kept == SelectSeq(ms, LAMBDA m : ~has_specificity(t, m))
    IN  [k \in 1..Len(kept) |-> Found(kept[k].start, kept[k].end, "vague", "medium")]

_check_role_definition(t) ==
    IF ~has_role(t) THEN <<Found(0, 0, "missing_role", "medium")>> ELSE <<>>

\* FORMAT_PATTERNS + OUTPUT_PATTERNS matched at token i
FormatAt(t, i) ==
    \/ InWords(t, i, {"format", "structure"}) /\ InCores(t, i + 1, {"as", "the", "your"})
    \/ IsWord(t, i, "bullet") /\ InCores(t, i + 1, {"point", "points"})
    \/ IsWord(t, i, "numbered") /\ HasCore(t, i + 1, "list")
    \/ InCores(t, i, {"table", "json", "markdown"})
    \/ IsWord(t, i, "output") /\ InCores(t, i + 1, {"format", "structure"})
    \/ /\ IsWord(t, i, "provide") /\ InWords(t, i + 1, {"in", "as"})
       /\ i + 2 \in 1..Len(t) /\ Clean(t[i + 2]) /\ HasCore(t, i + 3, "format")
    \/ IsWord(t, i, "response") /\ HasCore(t, i + 1, "format")
has_format(t) == \E i \in 1..Len(t) : FormatAt(t, i)

_check_output_format(t) ==
    IF ~has_format(t) /\ Len(t) > FormatMinWords
    THEN <<Found(TextLen(t), TextLen(t), "missing_format", "low")>> ELSE <<>>

\* the check with severity medium for a short text
check_length_medium(t) ==
    IF count_words(t) < MinWords
    THEN <<Found(0, TextLen(t), "too_short", "medium")>>
    ELSE IF count_words(t) > MaxWords
    THEN <<Found(0, TextLen(t), "too_long", "low")>>
    ELSE <<>>
\* the check without the branch of the long text
check_length_short_only(t) ==
    IF count_words(t) < MinWords
    THEN <<Found(0, TextLen(t), "too_short", "critical")>>
    ELSE <<>>
_check_length(t) ==
    IF count_words(t) < MinWords
    THEN <<Found(0, TextLen(t), "too_short", "critical")>>
    ELSE IF count_words(t) > MaxWords
    THEN <<Found(0, TextLen(t), "too_long", "low")>>
    ELSE <<>>

_check_specificity(t) ==
    IF count_words(t) > StructureMinWords /\ ~has_specific_instructions(t)
    THEN <<Found(0, TextLen(t), "inefficient", "low")>> ELSE <<>>

\* the spaCy document: the core and the punctuation of a word are tokens
WordTokens(t, i) ==
    (IF CoreOf(t[i]) # ""
     THEN <<[text |-> CoreOf(t[i]), idx |-> Offset(t, i)]>> ELSE <<>>)
    \o (IF PunctOf(t[i]) # ""
        THEN <<[text |-> PunctOf(t[i]), idx |-> CoreEnd(t, i)]>> ELSE <<>>)
RECURSIVE DocRange(_, _, _)
DocRange(t, lo, hi) ==
    IF lo > hi THEN <<>>
    ELSE IF lo = hi THEN WordTokens(t, lo)
    ELSE LET mid == (lo + hi) \div 2
         IN  DocRange(t, lo, mid) \o DocRange(t, mid + 1, hi)
nlp(t) == DocRange(t, 1, Len(t))

AmbiguousPronouns == {"it", "this", "that", "they", "them"}

\* what self.nlp(text) raises when the pipeline fails
TokenizerError == "ValueError"
\* a check without handler
CatchesNothing(exc) == FALSE
\* the handler of the check: except Exception
PronounCatches(exc) == exc \in ExceptionClasses
\* the exception that leaves the check (None when it returns)
PronounError(fails) ==
    IF fails /\ ~PronounCatches(TokenizerError) THEN TokenizerError ELSE None

\* tags: the tagger's verdict (pos_ == "PRON") for each candidate word;
\* fails: self.nlp(text) raises, which the check catches
_check_ambiguous_pronouns(t, tags, fails) ==
    IF fails THEN <<>>
    ELSE LET doc  == nlp(t)
             head == SubSeq(doc, 1, Min(PronounWindow, Len(doc)))
             hits == SelectSeq(head, LAMBDA tok :
                         tok.text \in AmbiguousPronouns /\ tags[tok.text])
         IN  [k \in 1..Len(hits) |->
                 Found(hits[k].idx, hits[k].idx + Len(hits[k].text), "ambiguous", "low")]

\* RuleBasedAnalyzer.analyze: the six checks in order, ids in creation order
RuleFindings(t, tags, fails) ==
    _check_vague_instructions(t) \o _check_role_definition(t)
      \o _check_output_format(t) \o _check_length(t)
      \o _check_specificity(t) \o _check_ambiguous_pronouns(t, tags, fails)

WithIds(prefix, fs) ==
    [k \in 1..Len(fs) |->
        Issue(prefix, k, fs[k].start, fs[k].end, fs[k].type, fs[k].severity)]

RuleAnalyze(t, tags, fails) == WithIds("issue-", RuleFindings(t, tags, fails))
\* the exception that leaves RuleBasedAnalyzer.analyze (None when it returns)
RuleError(fails) == PronounError(fails)

(***************************************************************************)
(* LLMOptimizer.analyze_with_llm.  A reply is what the collaborator call   *)
(* produces: an exception, or a response whose content is parsed.          *)
(***************************************************************************)
Missing == "<missing>"

\* an entry of the "issues" list; start and end are <<>> when the key is
\* missing and <<n>> when it is there; dict is FALSE for a non-object entry
Entry(dict, start, end, type, severity, message, suggestion, impact) ==
    [dict |-> dict, start |-> start, end |-> end, type |-> type,
     severity |-> severity, message |-> message, suggestion |-> suggestion,
     impact |-> impact]

\* issue_data.get("start", 0), issue_data.get("end", len(text))
EntryStart(e)  == IF e.start = <<>> THEN 0 ELSE e.start[1]
EntryEnd(e, t) == IF e.end = <<>> THEN TextLen(t) ELSE e.end[1]

\* PromptIssue without the constraints on start and end
EntryErrorNoSpan(e, t) ==
    IF ~e.dict THEN "AttributeError"
    ELSE IF e.type = Missing THEN "KeyError"
    ELSE IF e.type \notin IssueType THEN "ValueError"
    ELSE IF e.severity = Missing THEN "KeyError"
    ELSE IF e.severity \notin Severity THEN "ValueError"
    ELSE IF e.message = Missing \/ e.suggestion = Missing THEN "KeyError"
    ELSE IF e.impact # Missing /\ e.impact \notin Impact THEN "ValueError"
    ELSE IF e.message = "" \/ e.suggestion = "" THEN "ValidationError"
    ELSE None
\* the exception building the PromptIssue of entry e raises, or None
EntryError(e, t) ==
    IF ~e.dict THEN "AttributeError"
    ELSE IF e.type = Missing THEN "KeyError"
    ELSE IF e.type \notin IssueType THEN "ValueError"
    ELSE IF e.severity = Missing THEN "KeyError"
    ELSE IF e.severity \notin Severity THEN "ValueError"
    ELSE IF e.message = Missing \/ e.suggestion = Missing THEN "KeyError"
    ELSE IF e.impact # Missing /\ e.impact \notin Impact THEN "ValueError"
    ELSE IF \/ EntryStart(e) < 0 \/ EntryEnd(e, t) < 0
            \/ EntryEnd(e, t) < EntryStart(e)
            \/ e.message = "" \/ e.suggestion = ""
         THEN "ValidationError"
    ELSE None

\* a loop without handler around the entry
NoEntryHandler(exc) == FALSE
\* the handler around one entry: except Exception
InnerCatches(exc) == exc \in ExceptionClasses
\* a handler that catches the collaborator's own errors only
CatchesApiErrorOnly(exc) == exc = "APIError"
\* a handler that catches everything: except BaseException
CatchesBaseException(exc) == exc \in BaseExceptionClasses
\* the handler around the whole call: except Exception
Catches(exc) == exc \in ExceptionClasses

ScalarEntry == Entry(FALSE, <<>>, <<>>, Missing, Missing, Missing, Missing, Missing)
\* what the for loop iterates over: the list, or the characters of a string
EntriesOf(reply) ==
    IF reply.kind = "issues_list" THEN reply.entries
    ELSE IF reply.kind = "issues_string" THEN <<ScalarEntry>>
    ELSE <<>>

\* the loop: the entries that build, in order (a failing entry is skipped)
ParseEntries(es, t) ==
    LET ok == SelectSeq(es, LAMBDA e : EntryError(e, t) = None)
    IN  [k \in 1..Len(ok) |->
            Issue("llm-", k, EntryStart(ok[k]), EntryEnd(ok[k], t),
                  ok[k].type, ok[k].severity)]
\* the exception that leaves the loop: the first one its handler lets through
InnerError(es, t) ==
    LET bad == SelectSeq(es, LAMBDA e :
                   EntryError(e, t) # None /\ ~InnerCatches(EntryError(e, t)))
    IN  IF bad = <<>> THEN None ELSE EntryError(bad[1], t)

\* the body of the outer try: the exception it raises (None when it returns)
BodyError(reply, t) ==
    CASE reply.kind = "cancelled"           -> "CancelledError"
      [] reply.kind = "api_error"           -> "APIError"
      [] reply.kind = "no_choices"          -> "IndexError"
      [] reply.kind = "null_content"        -> "TypeError"
      [] reply.kind = "not_json"            -> "JSONDecodeError"
      [] reply.kind = "json_not_object"     -> "AttributeError"
      [] reply.kind = "issues_not_iterable" -> "TypeError"
      [] OTHER                              -> InnerError(EntriesOf(reply), t)

\* [raised |-> the exception that leaves the call, issues |-> its result]
analyze_with_llm(reply, t) ==
    LET exc == BodyError(reply, t)
    IN  IF exc = None
        THEN [raised |-> None, issues |-> ParseEntries(EntriesOf(reply), t)]
        ELSE IF Catches(exc) THEN [raised |-> None, issues |-> <<>>]
        ELSE [raised |-> exc, issues |-> <<>>]

(***************************************************************************)
(* Inputs.                                                                 *)
(***************************************************************************)
MaxLlmEntries == 2
MaxIssues == 3
MaxScoreIssues == 6
\* seconds of waiting the model follows
MaxWait == 31
\* settings.request_timeout
RequestTimeout == 30

Fill(n) == [i \in 1..n |-> "data"]
RolePhrase   == <<"You", "are", "an", "expert.">>
StructPhrase == <<"1.", "first">>
FormatPhrase == <<"format", "as", "json">>
FillCounts == {1, 5, 11, 16, 20}
\* two vague verbs, each with a specificity marker in its context
MarkedPhrase ==
    <<"Analyze", "data", "specifically", "review", "data", "specifically">>
\* a role phrase, an enumeration and a format phrase
GoodPhrase == RolePhrase \o StructPhrase \o FormatPhrase

\* texts at the limit of 500 words; they are analyzed on the fast path
LongTexts ==
    { GoodPhrase \o Fill(MaxWords - Len(GoodPhrase)),
      GoodPhrase \o Fill(MaxWords + 1 - Len(GoodPhrase)),
      Fill(MaxWords + 1) }

Texts ==
    {r \o s \o Fill(n) : r \in {<<>>, RolePhrase}, s \in {<<>>, StructPhrase},
                         n \in FillCounts}
    \cup {r \o StructPhrase \o FormatPhrase \o Fill(n) : r \in {<<>>, RolePhrase},
                                                       n \in {11, 16}}
    \cup { <<"analyze", "data">>,
           <<"please", "analyze", "data">>,
           <<"check", "it">>,
           <<"it", "data">>,
           <<"this", "-", "check", "the", "data">>,
           <<"please", "review">> \o Fill(16),
           RolePhrase,
           GoodPhrase \o MarkedPhrase \o Fill(11),
           <<"as", "an", "â", "expert">>,
           <<"You", "are", "an", "expert.", "Analyze", "data", "specifically",
             "with", "charts.">> }
    \cup LongTexts

\* the texts of the deep path followed through time
WaitTexts == { <<"analyze", "data">>, <<"check", "it">> }

\* the words of Vocab the tagger may tag as pronouns
PronounWords == {"it", "this"}

LlmEntries ==
    { Entry(TRUE, <<0>>, <<7>>, "vague", "critical", "m", "s", "high"),
      Entry(TRUE, <<3>>, <<4>>, "missing_context", "medium", "m", "s", Missing),
      Entry(TRUE, <<>>, <<>>, "inefficient", "low", "m", "s", "low"),
      Entry(TRUE, <<0>>, <<7>>, "unclear", "medium", "m", "s", "high"),
      Entry(TRUE, <<0>>, <<7>>, "vague", Missing, "m", "s", "high"),
      Entry(TRUE, <<5>>, <<2>>, "vague", "low", "m", "s", "high"),
      Entry(TRUE, <<0 - 1>>, <<4>>, "vague", "low", "m", "s", "high"),
      Entry(TRUE, <<0>>, <<7>>, "ambiguous", "low", "", "s", "urgent"),
      ScalarEntry }

Reply(kind, entries) == [kind |-> kind, entries |-> entries]
NoReply == Reply("pending", <<>>)
FailureKinds ==
    {"api_error", "no_choices", "null_content", "not_json", "json_not_object",
     "object_no_issues", "issues_not_iterable", "issues_string"}
LlmReplies ==
    {Reply(k, <<>>) : k \in FailureKinds}
    \cup {Reply("issues_list", es) : es \in SeqsUpTo(LlmEntries, MaxLlmEntries)}

\* the spans of the issue lists handed to _deduplicate_issues: around the
\* bucket boundary at 5
FuseSpans == {<<3, 4>>, <<4, 4>>, <<4, 5>>, <<5, 5>>}
FuseProtos ==
    {[span |-> sp, severity |-> sev, prefix |-> pre] :
        sp \in FuseSpans, sev \in Severity, pre \in Prefixes}
Numbered(ps) ==
    [k \in 1..Len(ps) |->
        Issue(ps[k].prefix, k, ps[k].span[1], ps[k].span[2], "vague", ps[k].severity)]
\* the near-duplicate spans (10,14) and (12,15), one medium and one critical
NearDuplicateProtos ==
    {<<[span |-> a, severity |-> sa, prefix |-> pa],
       [span |-> b, severity |-> sb, prefix |-> pb]>> :
        a \in {<<10, 14>>, <<12, 15>>}, b \in {<<10, 14>>, <<12, 15>>},
        sa \in {"medium", "critical"}, sb \in {"medium", "critical"},
        pa \in Prefixes, pb \in Prefixes}
NearDuplicateLists ==
    {Numbered(ps) : ps \in {q \in NearDuplicateProtos :
                              q[1].span # q[2].span /\ q[1].severity # q[2].severity}}
FuseInputs ==
    {Numbered(ps) : ps \in SeqsUpTo(FuseProtos, MaxIssues)} \cup NearDuplicateLists

\* issue lists handed to calculate_quality_score: any severities
ScoreInputs ==
    {[k \in 1..Len(ss) |-> Issue("issue-", k, 0, 0, "vague", ss[k])] :
        ss \in SeqsUpTo(Severity, MaxScoreIssues)}

\* the verdicts of the tagger on the candidate words of the text t (a word
\* that is not in t is not tagged)
TaggersOf(t) ==
    {f \in [PronounWords -> BOOLEAN] :
        \A w \in PronounWords : f[w] => \E i \in 1..Len(t) : CoreOf(t[i]) = w}

NoScore == 0 - 1
NoTags == [w \in PronounWords |-> FALSE]

(***************************************************************************)
(* HybridAnalyzer.analyze followed by calculate_quality_score, as the      *)
(* entry points call them.                                                 *)
(***************************************************************************)
Init ==
    /\ pc = "start"
    /\ text \in Texts
    /\ use_llm \in (IF text \in LongTexts THEN {FALSE} ELSE BOOLEAN)
    /\ nlp_fails \in BOOLEAN
    /\ pron_tags \in TaggersOf(text)
    /\ issues = <<>>
    /\ rule_issues = <<>>
    /\ llm_reply = NoReply
    /\ llm_issues = <<>>
    /\ result = <<>>
    /\ refused = <<>>
    /\ score = NoScore
    /\ raised = None
    /\ waited = 0
    /\ cancelled = FALSE
    /\ reqs = <<>>
    /\ cache = <<>>
    /\ ws = <<>>

\* analyze(text, use_llm=False): the rule issues are returned as they are
AnalyzeFast ==
    /\ pc = "start" /\ ~use_llm
    /\ IF RuleError(nlp_fails) # None
       THEN /\ raised' = RuleError(nlp_fails)
            /\ pc' = "done"
            /\ UNCHANGED <<rule_issues, result>>
       ELSE /\ rule_issues' = RuleAnalyze(text, pron_tags, nlp_fails)
            /\ result' = rule_issues'
            /\ pc' = "analyzed"
            /\ UNCHANGED raised
    /\ UNCHANGED <<text, use_llm, issues, llm_reply, llm_issues, nlp_fails,
                   pron_tags, refused, score, waited, cancelled,
                   reqs, cache, ws>>

\* analyze(text, use_llm=True) up to the await of the collaborator
AnalyzeDeepStart ==
    /\ pc = "start" /\ use_llm
    /\ IF RuleError(nlp_fails) # None
       THEN /\ raised' = RuleError(nlp_fails)
            /\ pc' = "done"
            /\ UNCHANGED rule_issues
       ELSE /\ rule_issues' = RuleAnalyze(text, pron_tags, nlp_fails)
            /\ pc' = "await_llm"
            /\ UNCHANGED raised
    /\ UNCHANGED <<text, use_llm, issues, llm_reply, llm_issues, nlp_fails,
                   pron_tags, result, refused, score, waited, cancelled,
                   reqs, cache, ws>>

\* analyze resumes with the outcome r of analyze_with_llm: the exception
\* passes through, or the lists are merged and deduplicated
Resume(r) ==
    IF r.raised # None
    THEN /\ raised' = r.raised
         /\ pc' = "done"
         /\ UNCHANGED <<llm_issues, issues, result>>
    ELSE /\ llm_issues' = r.issues
         /\ issues' = rule_issues \o r.issues
         /\ result' = _deduplicate_issues(rule_issues \o r.issues)
         /\ pc' = "analyzed"
         /\ UNCHANGED raised

\* the collaborator call ends: analyze_with_llm returns (or raises), and
\* analyze merges and deduplicates
AnalyzeDeepFinish ==
    /\ pc = "await_llm"
    /\ \E reply \in LlmReplies :
         /\ llm_reply' = reply
         /\ Resume(analyze_with_llm(reply, text))
    /\ UNCHANGED <<text, use_llm, rule_issues, nlp_fails, pron_tags, refused, score,
                   waited, cancelled,
                   reqs, cache, ws>>

\* the request is cancelled during the await: CancelledError is raised at
\* the await of create() inside the try of analyze_with_llm
Cancel ==
    /\ pc = "await_llm"
    /\ cancelled' = TRUE
    /\ Resume(analyze_with_llm(Reply("cancelled", <<>>), text))
    /\ UNCHANGED <<text, use_llm, rule_issues, llm_reply, nlp_fails, pron_tags,
                   refused, score, waited, reqs, cache, ws>>

\* a second passes while the collaborator call is awaited: create() is
\* called without a timeout and nothing else ends the await
Tick ==
    /\ pc = "await_llm"
    /\ waited < MaxWait
    /\ waited' = waited + 1
    /\ UNCHANGED <<pc, text, use_llm, issues, rule_issues, llm_reply, llm_issues,
                   nlp_fails, pron_tags, result, refused, score, raised, cancelled,
                   reqs, cache, ws>>

\* quality_score = analyzer.calculate_quality_score(text, issues)
ScoreResult ==
    /\ pc = "analyzed"
    /\ score' = calculate_quality_score(text, result)
    /\ pc' = "done"
    /\ UNCHANGED <<text, use_llm, issues, rule_issues, llm_reply, llm_issues,
                   nlp_fails, pron_tags, result, refused, raised,
                   waited, cancelled,
                   reqs, cache, ws>>

Next ==
    AnalyzeFast \/ AnalyzeDeepStart \/ AnalyzeDeepFinish \/ Cancel \/ ScoreResult

Spec == Init /\ [][Next]_vars

(***************************************************************************)
(* The deep path with the passing of time during the await.                *)
(***************************************************************************)
InitWait ==
    /\ pc = "start"
    /\ text \in WaitTexts
    /\ use_llm = TRUE
    /\ nlp_fails \in BOOLEAN
    /\ pron_tags = NoTags
    /\ issues = <<>>
    /\ rule_issues = <<>>
    /\ llm_reply = NoReply
    /\ llm_issues = <<>>
    /\ result = <<>>
    /\ refused = <<>>
    /\ score = NoScore
    /\ raised = None
    /\ waited = 0
    /\ cancelled = FALSE
    /\ reqs = <<>>
    /\ cache = <<>>
    /\ ws = <<>>

NextWait == AnalyzeDeepStart \/ Tick \/ AnalyzeDeepFinish \/ Cancel \/ ScoreResult

SpecWait == InitWait /\ [][NextWait]_vars

(***************************************************************************)
(* _deduplicate_issues applied to any issue list, and applied again to its *)
(* own result.                                                             *)
(***************************************************************************)
InitFuse ==
    /\ pc = "fuse_ready"
    /\ issues \in FuseInputs
    /\ text = <<>>
    /\ use_llm = TRUE
    /\ nlp_fails = FALSE
    /\ pron_tags = NoTags
    /\ rule_issues = <<>>
    /\ llm_reply = NoReply
    /\ llm_issues = <<>>
    /\ result = <<>>
    /\ refused = <<>>
    /\ score = NoScore
    /\ raised = None
    /\ waited = 0
    /\ cancelled = FALSE
    /\ reqs = <<>>
    /\ cache = <<>>
    /\ ws = <<>>

Fuse ==
    /\ pc = "fuse_ready"
    /\ result' = _deduplicate_issues(issues)
    /\ pc' = "fused"
    /\ UNCHANGED <<text, use_llm, issues, rule_issues, llm_reply, llm_issues,
                   nlp_fails, pron_tags, refused, score, raised,
                   waited, cancelled,
                   reqs, cache, ws>>

\* the fused list fused again with an empty list
Refuse ==
    /\ pc = "fused"
    /\ refused' = _deduplicate_issues(result \o <<>>)
    /\ pc' = "refused"
    /\ UNCHANGED <<text, use_llm, issues, rule_issues, llm_reply, llm_issues,
                   nlp_fails, pron_tags, result, score, raised,
                   waited, cancelled,
                   reqs, cache, ws>>

NextFuse == Fuse \/ Refuse

SpecFuse == InitFuse /\ [][NextFuse]_vars

(***************************************************************************)
(* calculate_quality_score applied to any text and any issue list.         *)
(***************************************************************************)
InitScore ==
    /\ pc = "score_ready"
    /\ text \in Texts
    /\ issues \in ScoreInputs
    /\ use_llm = FALSE
    /\ nlp_fails = FALSE
    /\ pron_tags = NoTags
    /\ rule_issues = <<>>
    /\ llm_reply = NoReply
    /\ llm_issues = <<>>
    /\ result = <<>>
    /\ refused = <<>>
    /\ score = NoScore
    /\ raised = None
    /\ waited = 0
    /\ cancelled = FALSE
    /\ reqs = <<>>
    /\ cache = <<>>
    /\ ws = <<>>

Score ==
    /\ pc = "score_ready"
    /\ score' = calculate_quality_score(text, issues)
    /\ pc' = "scored"
    /\ UNCHANGED <<text, use_llm, issues, rule_issues, llm_reply, llm_issues,
                   nlp_fails, pron_tags, result, refused, raised,
                   waited, cancelled,
                   reqs, cache, ws>>

NextScore == Score

SpecScore == InitScore /\ [][NextScore]_vars

(***************************************************************************)
(* Properties.  The bucket and the rank of an issue are restated here as   *)
(* the claims word them.                                                   *)
(***************************************************************************)
Floor5(x) == 5 * (x \div 5)
ClaimBucket(i) == <<Floor5(i.start), Floor5(i.end)>>
ClaimSeverityRank(i) ==
    IF i.severity = "critical" THEN 3 ELSE IF i.severity = "medium" THEN 2 ELSE 1
ClaimLlmBit(i) == IF i.id.prefix = "llm-" THEN 1 ELSE 0
RankAtLeast(a, b) ==
    \/ ClaimSeverityRank(a) > ClaimSeverityRank(b)
    \/ ClaimSeverityRank(a) = ClaimSeverityRank(b) /\ ClaimLlmBit(a) >= ClaimLlmBit(b)
SameRank(a, b) ==
    ClaimSeverityRank(a) = ClaimSeverityRank(b) /\ ClaimLlmBit(a) = ClaimLlmBit(b)
IsSortedByStart(is) ==
    \A j, k \in 1..Len(is) : j < k => is[j].start <= is[k].start
Elems(is) == {is[k] : k \in 1..Len(is)}
Analyzed == pc \in {"analyzed", "done"} /\ raised = None

\* C1: calculate_quality_score returns a score between 0 and 100 for every
\* text and every issue list.
C1_ScoreInRange == pc = "scored" => score \in 0..100
C1_Witness ==
    /\ pc = "scored" /\ score = 0
    /\ Len(issues) >= 6
    /\ \A k \in 1..Len(issues) : issues[k].severity = "critical"

\* C2: with an empty issue list the score is exactly 100, whichever of the
\* three bonuses apply.
C2_EmptyListScores100 == (pc = "scored" /\ issues = <<>>) => score = 100
C2_Witness ==
    /\ pc = "scored" /\ issues = <<>> /\ score = 100
    /\ count_words(text) >= 20 /\ has_specific_instructions(text) /\ has_role(text)

\* C3: the list _deduplicate_issues returns is sorted ascending by start.
C3_FusedSortedByStart == pc \in {"fused", "refused"} => IsSortedByStart(result)
C3_Witness ==
    /\ pc = "fused" /\ Len(issues) >= 2
    /\ issues[1].start > issues[2].start
    /\ Len(result) = Len(issues)

\* C4: without deep analysis, analyze returns the heuristic issues sorted
\* ascending by start.
C4_FastPathSorted == (Analyzed /\ ~use_llm) => IsSortedByStart(result)

\* C5: no two issues of a list _deduplicate_issues returns have the same
\* bucket key (start // 5 * 5, end // 5 * 5).
C5_OneIssuePerBucket ==
    pc \in {"fused", "refused"} =>
        \A j, k \in 1..Len(result) :
            j # k => ClaimBucket(result[j]) # ClaimBucket(result[k])
C5_Witness ==
    /\ pc = "fused" /\ Len(result) < Len(issues)
    /\ \E j, k \in 1..Len(issues) :
         /\ ClaimBucket(issues[j]) = ClaimBucket(issues[k])
         /\ issues[j].start # issues[k].start

C7_RefuseIdempotent == pc = "refused" => refused = result
C7_Witness ==
    /\ pc = "refused" /\ Len(result) < Len(issues)
    /\ \E j, k \in 1..Len(result) : j < k /\ result[j].start = result[k].start

\* C8: of the issues of a bucket, _deduplicate_issues keeps the one with the
\* greatest (severity rank, LLM bit), and the first in input order of those
\* that tie on both.
C8_BestOfBucketKept ==
    pc = "fused" =>
        \A k \in 1..Len(issues) : \E w \in 1..Len(result) :
            /\ ClaimBucket(result[w]) = ClaimBucket(issues[k])
            /\ result[w].id.n \in 1..Len(issues)
            /\ result[w] = issues[result[w].id.n]
            /\ RankAtLeast(result[w], issues[k])
            /\ SameRank(result[w], issues[k]) => result[w].id.n <= k
C8_Witness ==
    /\ pc = "fused" /\ Len(issues) = 3
    /\ ClaimBucket(issues[1]) = ClaimBucket(issues[2])
    /\ ClaimBucket(issues[2]) = ClaimBucket(issues[3])
    /\ ~RankAtLeast(issues[1], issues[2])
    /\ SameRank(issues[2], issues[3])
    /\ issues[2].start # issues[3].start
    /\ result = <<issues[2]>>

IsNearDuplicatePair(is) ==
    /\ Len(is) = 2
    /\ {<<is[1].start, is[1].end>>, <<is[2].start, is[2].end>>}
          = {<<10, 14>>, <<12, 15>>}
    /\ {is[1].severity, is[2].severity} = {"medium", "critical"}
\* C9: the issues at (10,14) and (12,15), one medium and one critical, are
\* fused into the critical one alone.
C9_NearDuplicatesMerged ==
    (pc = "fused" /\ IsNearDuplicatePair(issues)) =>
        /\ Len(result) = 1
        /\ result[1].severity = "critical"

\* C10: a collaborator that throws, answers unparsable JSON or carries no
\* usable issues list never makes analyze raise: analyze_with_llm returns an
\* empty list and the result is made of heuristic issues only.
C10_CollaboratorFailureFallsBack ==
    /\ llm_reply # NoReply => raised = None /\ pc \in {"analyzed", "done"}
    /\ llm_reply.kind \in FailureKinds =>
         /\ llm_issues = <<>>
         /\ Elems(result) \subseteq Elems(rule_issues)
         /\ pc = "done" => score \in 0..100
C10_Witness ==
    /\ pc = "done" /\ use_llm /\ llm_reply.kind = "not_json"
    /\ raised = None /\ Len(result) > 0 /\ score # NoScore

\* an entry as the claims word it: an object with known enum values, the
\* four text fields present and filled, and a span that validates
ClaimSpanStart(e) == IF e.start = <<>> THEN 0 ELSE e.start[1]
ClaimSpanEnd(e) == IF e.end = <<>> THEN TextLen(text) ELSE e.end[1]
ClaimEntryValid(e) ==
    /\ e.dict
    /\ e.type \in IssueType /\ e.severity \in Severity
    /\ e.message \notin {Missing, ""} /\ e.suggestion \notin {Missing, ""}
    /\ e.impact = Missing \/ e.impact \in Impact
    /\ 0 <= ClaimSpanStart(e) /\ ClaimSpanStart(e) <= ClaimSpanEnd(e)
ClaimHasSpan(e) == e.start # <<>> /\ e.end # <<>>
\* the issues of the entries of es that pass keep, numbered in order
ClaimAccepted(es, keep(_)) ==
    LET ok == SelectSeq(es, keep)
    IN  [k \in 1..Len(ok) |->
            Issue("llm-", k, ClaimSpanStart(ok[k]), ClaimSpanEnd(ok[k]),
                  ok[k].type, ok[k].severity)]
ListReplied == llm_reply.kind = "issues_list" /\ ~cancelled

\* C11 as stated: an entry with an unknown enum value or without type,
\* severity, message, suggestion, start or end is dropped by itself and
\* every other valid entry of the response is returned.
C11_MalformedDroppedAlone ==
    ListReplied =>
        llm_issues = ClaimAccepted(llm_reply.entries,
                         LAMBDA e : ClaimEntryValid(e) /\ ClaimHasSpan(e))

\* C11 amended: an entry with an unknown enum value, without type, severity,
\* message or suggestion, or failing validation is dropped by itself and
\* every other entry is returned; an entry without start or end is kept,
\* with start 0 and end the length of the text.
C11_MalformedDroppedDefaultSpan ==
    ListReplied =>
        llm_issues = ClaimAccepted(llm_reply.entries, ClaimEntryValid)
C11_Witness ==
    /\ ListReplied /\ Len(llm_reply.entries) = 2
    /\ llm_reply.entries[1].type \notin IssueType
    /\ llm_reply.entries[2].start = <<>>
    /\ Len(llm_issues) = 1
    /\ llm_issues[1].start = 0 /\ llm_issues[1].end = TextLen(text)
    /\ TextLen(text) > 0

\* C12: every deep-path analysis returns: the await of the collaborator
\* lasts no longer than the configured timeout (settings.request_timeout),
\* after which the request completes with the heuristic result.
C12_WaitBoundedByTimeout == pc = "await_llm" => waited <= RequestTimeout

\* C13: a request cancelled during the await of the collaborator ends with
\* CancelledError leaving analyze_with_llm and analyze: the handler of the
\* fallback does not swallow it, no reply of the collaborator is taken, and
\* no issue list, not even the heuristic one, and no score is returned.
C13_CancellationPropagates ==
    cancelled =>
        /\ raised = "CancelledError" /\ pc = "done"
        /\ llm_reply = NoReply /\ llm_issues = <<>>
        /\ result = <<>> /\ score = NoScore
C13_Witness ==
    /\ cancelled /\ use_llm /\ raised = "CancelledError"
    /\ Len(rule_issues) >= 2 /\ result = <<>>

\* the list holds an issue of this type and severity
HasIssue(is, type, severity) ==
    \E k \in 1..Len(is) : is[k].type = type /\ is[k].severity = severity
CountType(is, type) == Cardinality({k \in 1..Len(is) : is[k].type = type})
\* the fast path has returned and its score is computed
FastScored == pc = "done" /\ ~use_llm /\ raised = None

\* C14: for the text "analyze data" heuristic analysis returns at least one
\* vague issue of severity medium and one missing_role issue of severity
\* medium, and the quality score of the returned issues is below 50.
C14_PoorPromptBelow50 ==
    (FastScored /\ text = <<"analyze", "data">>) =>
        /\ HasIssue(result, "vague", "medium")
        /\ HasIssue(result, "missing_role", "medium")
        /\ Len(result) >= 2
        /\ score < 50

\* the issues of this type in the list
OfType(is, type) == SelectSeq(is, LAMBDA i : i.type = type)
\* exactly one too_short issue, critical and spanning the whole text, and
\* no too_long issue
OneTooShort(is) ==
    /\ Len(OfType(is, "too_short")) = 1
    /\ OfType(is, "too_short")[1].severity = "critical"
    /\ OfType(is, "too_short")[1].start = 0
    /\ OfType(is, "too_short")[1].end = TextLen(text)
    /\ OfType(is, "too_long") = <<>>
ShortScored == FastScored /\ count_words(text) < 5

NoOtherDefect ==
    /\ has_role(text) /\ has_format(text) /\ has_specific_instructions(text)
    /\ OfType(result, "vague") = <<>> /\ OfType(result, "ambiguous") = <<>>

\* C16: a text of more than 500 words with no other defect gets exactly one
\* too_long issue, of severity low, and no too_short issue, and its score is
\* at least 90; too_short and too_long are never emitted for the same text.
C16_LongTextOneIssue ==
    FastScored =>
        /\ (count_words(text) > 500 /\ NoOtherDefect) =>
              /\ Len(OfType(result, "too_long")) = 1
              /\ OfType(result, "too_long")[1].severity = "low"
              /\ OfType(result, "too_short") = <<>>
              /\ score >= 90
        /\ OfType(result, "too_short") = <<>> \/ OfType(result, "too_long") = <<>>
C16_Witness ==
    /\ FastScored /\ count_words(text) = 501 /\ NoOtherDefect
    /\ Len(result) = 1 /\ result[1].type = "too_long" /\ score = 100

\* every vague match has a specificity marker in the 50 characters after it,
\* and neither candidate pronoun is found among the first two tokens
NoVagueFinding ==
    \A k \in 1..Len(find_matches(text)) : has_specificity(text, find_matches(text)[k])
NoAmbiguousFinding ==
    nlp_fails \/ \A k \in 1..Min(2, Len(nlp(text))) :
                     ~(nlp(text)[k].text \in AmbiguousPronouns /\ pron_tags[nlp(text)[k].text])
GoodPrompt ==
    /\ has_role(text) /\ has_specific_instructions(text) /\ has_format(text)
    /\ count_words(text) >= 20 /\ count_words(text) <= 500
    /\ NoVagueFinding /\ NoAmbiguousFinding

\* C17: a text of 20 to 500 words with a role phrase, enumerated structure
\* and a format phrase, for which nothing vague or ambiguous is found, gets
\* at most one heuristic issue and a score of at least 90.
C17_GoodPromptScoresHigh ==
    (FastScored /\ GoodPrompt) => Len(result) <= 1 /\ score >= 90
C17_Witness ==
    /\ FastScored /\ GoodPrompt
    /\ Len(find_matches(text)) = 2
    /\ result = <<>> /\ score = 100

\* C18: for the text "You are an expert. Analyze data specifically with
\* charts." the quality score of its heuristic issues lies between 70 and
\* 95 inclusive.
C18_ScoreBetween70And95 ==
    (FastScored /\ text = <<"You", "are", "an", "expert.", "Analyze", "data",
                            "specifically", "with", "charts.">>) =>
        score >= 70 /\ score <= 95

SpanOk(i) == 0 <= i.start /\ i.start <= i.end
\* the entries of the reply whose span, defaults applied, validates
SpanOkEntries ==
    {k \in 1..Len(llm_reply.entries) :
        /\ llm_reply.entries[k].dict
        /\ 0 <= ClaimSpanStart(llm_reply.entries[k])
        /\ ClaimSpanStart(llm_reply.entries[k]) <= ClaimSpanEnd(llm_reply.entries[k])}

\* C19: every issue of the heuristic checks and every issue accepted from
\* the collaborator has end >= start >= 0; an entry with end < start or a
\* negative offset builds no issue (it is refused, not clamped).
C19_SpansValid ==
    /\ \A i \in Elems(rule_issues) \cup Elems(llm_issues) \cup Elems(result) :
          SpanOk(i)
    /\ ListReplied => Len(llm_issues) <= Cardinality(SpanOkEntries)
C19_Witness ==
    /\ ListReplied /\ Len(llm_reply.entries) = 2
    /\ llm_reply.entries[1].start = <<0 - 1>>
    /\ llm_reply.entries[2].start = <<3>>
    /\ Len(llm_issues) = 1 /\ llm_issues[1].start = 3 /\ llm_issues[1].end = 4
    /\ \E k \in 1..Len(rule_issues) : rule_issues[k].type = "ambiguous"

\* the issues of the five checks that do not use the tokenizer
FiveChecks ==
    WithIds("issue-",
        _check_vague_instructions(text) \o _check_role_definition(text)
          \o _check_output_format(text) \o _check_length(text)
          \o _check_specificity(text))

\* C20: when the tokenizer raises in the ambiguous-reference check, the
\* check adds no issue and analyze returns the issues of the five other
\* checks without raising (to the fast path, or to the deep path which
\* holds them at the await).
C20_TokenizerFailureSkipsCheck ==
    (nlp_fails /\ pc # "start") =>
        /\ ~cancelled => raised = None
        /\ OfType(rule_issues, "ambiguous") = <<>>
        /\ pc = "await_llm" => rule_issues = FiveChecks
        /\ (~use_llm) => result = FiveChecks
C20_Witness ==
    /\ nlp_fails /\ ~use_llm /\ pc = "analyzed" /\ raised = None
    /\ text = <<"check", "it">> /\ pron_tags["it"]
    /\ Len(result) = 3

\* the number of issues of the list with a severity of S
CountSeverity(is, S) == Cardinality({k \in 1..Len(is) : is[k].severity \in S})
\* the score as one sum clamped once
ClosedFormScore(t, is) ==
    LET total == 100 - 20 * CountSeverity(is, {"critical"})
                     - 10 * CountSeverity(is, {"medium"})
                     - 5 * CountSeverity(is, Severity \ {"critical", "medium"})
                     + (IF count_words(t) >= 20 THEN 5 ELSE 0)
                     + (IF has_specific_instructions(t) THEN 5 ELSE 0)
                     + (IF has_role(t) THEN 5 ELSE 0)
    IN  IF total < 0 THEN 0 ELSE IF total > 100 THEN 100 ELSE total

\* C26: calculate_quality_score equals max(0, min(100, 100 - 20 critical
\* - 10 medium - 5 other + 5 for each of the three bonuses)): the cap at 100
\* after each bonus changes nothing, nor does the order of the issues.
C26_ScoreClosedForm == pc = "scored" => score = ClosedFormScore(text, issues)
C26_Witness ==
    /\ pc = "scored" /\ Len(issues) = 3
    /\ issues[1].severity = "low" /\ issues[2].severity = "critical"
    /\ issues[3].severity = "medium"
    /\ count_words(text) >= 20 /\ has_specific_instructions(text) /\ has_role(text)
    /\ score = 80

\* C27: every issue _deduplicate_issues returns is one of the issues it
\* was given, unchanged, and every bucket of the input has an issue in the
\* output: an issue is dropped only for a retained issue of its own bucket
\* with an equal or higher (severity rank, LLM bit).
C27_FusionKeepsOrDrops ==
    pc \in {"fused", "refused"} =>
        /\ Elems(result) \subseteq Elems(issues)
        /\ \A i \in Elems(issues) : \E w \in Elems(result) :
              ClaimBucket(w) = ClaimBucket(i) /\ RankAtLeast(w, i)
C27_Witness ==
    /\ pc = "fused" /\ Len(issues) = 3 /\ Len(result) = 2
    /\ issues[1].severity = "low" /\ issues[2].severity = "critical"
    /\ ClaimBucket(issues[1]) = ClaimBucket(issues[2])
    /\ Elems(result) = {issues[2], issues[3]}

\* C28: when the collaborator fails, analyze(text, use_llm=True) returns what
\* analyze(text, use_llm=False) returns for the text: the heuristic issues
\* in the same order, and so the same quality score.
C28_FailureEqualsFastPath ==
    (Analyzed /\ use_llm /\ llm_reply.kind \in FailureKinds) =>
        /\ result = RuleAnalyze(text, pron_tags, nlp_fails)
        /\ pc = "done" =>
              score = calculate_quality_score(text,
                          RuleAnalyze(text, pron_tags, nlp_fails))

(***************************************************************************)
(* CacheManager (cache/redis_manager.py).  A Python value is a record:     *)
(* its kind, n (the number; for a "str" the numeral that is its text; for  *)
(* a "datetime" the instant) and items (the members of a container; the    *)
(* members of a dict are "item" pairs of a key and a value).  A JSON       *)
(* document has the same shape with the kinds of JSON.                     *)
(***************************************************************************)
PyValue(kind, n, items) == [kind |-> kind, n |-> n, items |-> items]
PyNone == PyValue("none", 0, <<>>)

\* json.dumps(value): <<document>>, or <<>> when it raises TypeError.  A
\* tuple is written as an array, an int or None key as a string, and a
\* datetime is not serializable
RECURSIVE JsonDumps(_)
JsonDumps(v) ==
    LET parts == [k \in 1..Len(v.items) |-> JsonDumps(v.items[k])]
        bad == \E k \in 1..Len(parts) : parts[k] = <<>>
        inner == [k \in 1..Len(parts) |-> parts[k][1]]
        key == v.items[1]
    IN  CASE v.kind = "int"  -> <<PyValue("number", v.n, <<>>)>>
          [] v.kind = "str"  -> <<PyValue("string", v.n, <<>>)>>
          [] v.kind = "none" -> <<PyValue("null", 0, <<>>)>>
          [] v.kind \in {"list", "tuple"} ->
                IF bad THEN <<>> ELSE <<PyValue("array", 0, inner)>>
          [] v.kind = "dict" ->
                IF bad THEN <<>> ELSE <<PyValue("object", 0, inner)>>
          [] v.kind = "item" ->
                IF key.kind \notin {"str", "int"} \/ parts[2] = <<>> THEN <<>>
                ELSE <<PyValue("member", 0,
                               <<PyValue("string", key.n, <<>>), parts[2][1]>>)>>
          [] OTHER -> <<>>

\* a reader that hands the document back as it is
JsonLoadsAsIs(d) == d
\* json.loads(document): an object becomes a dict with str keys, an array
\* a list
RECURSIVE JsonLoads(_)
JsonLoads(d) ==
    LET inner == [k \in 1..Len(d.items) |-> JsonLoads(d.items[k])]
    IN  CASE d.kind = "number" -> PyValue("int", d.n, <<>>)
          [] d.kind = "string" -> PyValue("str", d.n, <<>>)
          [] d.kind = "array"  -> PyValue("list", 0, inner)
          [] d.kind = "object" -> PyValue("dict", 0, inner)
          [] d.kind = "member" -> PyValue("item", 0, inner)
          [] OTHER -> PyNone

\* bool(value), as in "if cached:"
Truthy(v) ==
    CASE v.kind = "none" -> FALSE
      [] v.kind = "int" -> v.n # 0
      [] v.kind \in {"list", "tuple", "dict"} -> v.items # <<>>
      [] OTHER -> TRUE

CacheKeys == {"analysis:k1", "analysis:k2"}
\* a cache method without handler: what its try raises leaves it
CacheRaisedAll(exc) == exc
\* what leaves a cache method whose try raised exc: the handlers of get,
\* set and delete are "except Exception"
CacheRaised(exc) == IF exc \in ExceptionClasses THEN None ELSE exc
\* "if not self.enabled or not self.client: return", negated
Usable(c) == c.enabled /\ c.client # None

\* the three methods: [returned, raised, calls, store], calls being the
\* calls made to the store and fails telling whether the store call raises
CacheGet(c, key, fails) ==
    IF ~Usable(c)
    THEN [returned |-> PyNone, raised |-> None, calls |-> 0, store |-> c.store]
    ELSE IF fails
    THEN [returned |-> PyNone, raised |-> CacheRaised("ConnectionError"),
          calls |-> 1, store |-> c.store]
    ELSE [returned |-> IF c.store[key] # <<>> THEN JsonLoads(c.store[key][1])
                       ELSE PyNone,
          raised |-> None, calls |-> 1, store |-> c.store]

CacheSet(c, key, value, fails) ==
    IF ~Usable(c)
    THEN [returned |-> PyNone, raised |-> None, calls |-> 0, store |-> c.store]
    ELSE IF JsonDumps(value) = <<>>
    THEN [returned |-> PyNone, raised |-> CacheRaised("TypeError"),
          calls |-> 0, store |-> c.store]
    ELSE IF fails
    THEN [returned |-> PyNone, raised |-> CacheRaised("ConnectionError"),
          calls |-> 1, store |-> c.store]
    ELSE [returned |-> PyNone, raised |-> None, calls |-> 1,
          store |-> [c.store EXCEPT ![key] = JsonDumps(value)]]

CacheDelete(c, key, fails) ==
    IF ~Usable(c)
    THEN [returned |-> PyNone, raised |-> None, calls |-> 0, store |-> c.store]
    ELSE IF fails
    THEN [returned |-> PyNone, raised |-> CacheRaised("ConnectionError"),
          calls |-> 1, store |-> c.store]
    ELSE [returned |-> PyNone, raised |-> None, calls |-> 1,
          store |-> [c.store EXCEPT ![key] = <<>>]]

(***************************************************************************)
(* The cache manager called directly, as tests/unit/test_cache.py does.    *)
(* reqs holds the last call with its outcome, and for each key the value   *)
(* last handed to set and not removed since.                               *)
(***************************************************************************)
\* {"1": 85}, {1: 85}, {"1": datetime}, (85,), [85], {}, None
CacheValues ==
    LET PyInt(n) == PyValue("int", n, <<>>)
        PyStr(n) == PyValue("str", n, <<>>)
        PyDict(k, v) == PyValue("dict", 0, <<PyValue("item", 0, <<k, v>>)>>)
    IN  { PyDict(PyStr(1), PyInt(85)), PyDict(PyInt(1), PyInt(85)),
          PyDict(PyStr(1), PyValue("datetime", 1, <<>>)),
          PyValue("tuple", 0, <<PyInt(85)>>), PyValue("list", 0, <<PyInt(85)>>),
          PyValue("dict", 0, <<>>), PyNone }

Call(op, key, value, fails, out) ==
    [op |-> op, key |-> key, value |-> value, returned |-> out.returned,
     raised |-> out.raised, calls |-> out.calls, failed |-> fails,
     usable |-> Usable(cache)]

InitCache ==
    /\ pc = "cache"
    /\ text = <<>>
    /\ use_llm = FALSE
    /\ nlp_fails = FALSE
    /\ pron_tags = NoTags
    /\ issues = <<>>
    /\ rule_issues = <<>>
    /\ llm_reply = NoReply
    /\ llm_issues = <<>>
    /\ result = <<>>
    /\ refused = <<>>
    /\ score = NoScore
    /\ raised = None
    /\ waited = 0
    /\ cancelled = FALSE
    /\ cache \in {[enabled |-> e, client |-> None,
                   store |-> [k \in CacheKeys |-> <<>>]] : e \in BOOLEAN}
    /\ reqs = [last |-> Call("none", "", PyNone, FALSE,
                             [returned |-> PyNone, raised |-> None, calls |-> 0]),
               given |-> [k \in CacheKeys |-> <<>>]]
    /\ ws = <<>>

\* connect(): nothing when disabled; the client is built and pinged, and a
\* failure of either disables the cache
Connect ==
    /\ cache.client = None
    /\ cache.enabled
    /\ \/ cache' = [cache EXCEPT !.client = "redis"]
       \/ \E c \in {None, "redis"} :
            cache' = [cache EXCEPT !.client = c, !.enabled = FALSE]
    /\ UNCHANGED <<pc, text, use_llm, issues, rule_issues, llm_reply, llm_issues,
                   nlp_fails, pron_tags, result, refused, score, raised, waited,
                   cancelled, reqs, ws>>

CallSet ==
    \E key \in CacheKeys, value \in CacheValues, fails \in BOOLEAN :
      LET out == CacheSet(cache, key, value, fails)
      IN  /\ cache' = [cache EXCEPT !.store = out.store]
          /\ reqs' = [last |-> Call("set", key, value, fails, out),
                      given |-> [reqs.given EXCEPT
                          ![key] = <<[value |-> value, usable |-> Usable(cache),
                                      wrote |-> out.store # cache.store
                                                \/ (out.calls = 1 /\ ~fails)]>>]]
          /\ UNCHANGED <<pc, text, use_llm, issues, rule_issues, llm_reply,
                         llm_issues, nlp_fails, pron_tags, result, refused, score,
                         raised, waited, cancelled, ws>>

CallGet ==
    \E key \in CacheKeys, fails \in BOOLEAN :
      LET out == CacheGet(cache, key, fails)
      IN  /\ reqs' = [reqs EXCEPT !.last = Call("get", key, PyNone, fails, out)]
          /\ UNCHANGED <<pc, text, use_llm, issues, rule_issues, llm_reply,
                         llm_issues, nlp_fails, pron_tags, result, refused, score,
                         raised, waited, cancelled, cache, ws>>

CallDelete ==
    \E key \in CacheKeys, fails \in BOOLEAN :
      LET out == CacheDelete(cache, key, fails)
      IN  /\ cache' = [cache EXCEPT !.store = out.store]
          /\ reqs' = [last |-> Call("delete", key, PyNone, fails, out),
                      given |-> IF out.calls = 1 /\ ~fails
                                THEN [reqs.given EXCEPT ![key] = <<>>]
                                ELSE reqs.given]
          /\ UNCHANGED <<pc, text, use_llm, issues, rule_issues, llm_reply,
                         llm_issues, nlp_fails, pron_tags, result, refused, score,
                         raised, waited, cancelled, ws>>

\* the time to live of an entry (setex) runs out
Expire ==
    \E key \in CacheKeys :
      /\ cache.store[key] # <<>>
      /\ cache' = [cache EXCEPT !.store[key] = <<>>]
      /\ reqs' = [last |-> Call("expire", key, PyNone, FALSE,
                              [returned |-> PyNone, raised |-> None, calls |-> 0]),
                  given |-> [reqs.given EXCEPT ![key] = <<>>]]
      /\ UNCHANGED <<pc, text, use_llm, issues, rule_issues, llm_reply,
                     llm_issues, nlp_fails, pron_tags, result, refused, score,
                     raised, waited, cancelled, ws>>

NextCache == Connect \/ CallSet \/ CallGet \/ CallDelete \/ Expire

SpecCache == InitCache /\ [][NextCache]_vars

(***************************************************************************)
(* C23: set followed by get.                                               *)
(***************************************************************************)
\* the value is built of ints, strs, None, the given containers and dicts
\* whose keys have one of the given kinds
RECURSIVE ClaimJsonOk(_, _, _)
ClaimJsonOk(v, containers, keys) ==
    CASE v.kind \in {"int", "str", "none"} -> TRUE
      [] v.kind \in containers ->
            \A k \in 1..Len(v.items) : ClaimJsonOk(v.items[k], containers, keys)
      [] v.kind = "item" ->
            /\ v.items[1].kind \in keys
            /\ ClaimJsonOk(v.items[2], containers, keys)
      [] OTHER -> FALSE
\* json.loads(json.dumps(v)) == v
ClaimJsonFaithful(v) == ClaimJsonOk(v, {"list", "dict"}, {"str"})
\* json.dumps(v) does not raise
ClaimJsonSerializable(v) == ClaimJsonOk(v, {"list", "tuple", "dict"}, {"str", "int"})
\* the value handed to the set that key has last seen while the cache was
\* enabled with a client, its entry not removed since
ClaimGiven(key) ==
    IF key \in CacheKeys /\ reqs.given[key] # <<>> /\ reqs.given[key][1].usable
    THEN reqs.given[key] ELSE <<>>

\* C23 (as stated): with the cache enabled and a client attached, a get
\* after set(key, value) returns a value equal to value until the entry
\* expires or is deleted, every set makes exactly one store write and every
\* delete exactly one store delete.
C23_SetThenGet ==
    (pc = "cache" /\ reqs.last.usable) =>
        /\ (reqs.last.op = "get" /\ ClaimGiven(reqs.last.key) # <<>>) =>
              reqs.last.returned = ClaimGiven(reqs.last.key)[1].value
        /\ reqs.last.op \in {"set", "delete"} => reqs.last.calls = 1

\* C23 (amended): the round trip holds for the values json.dumps accepts and
\* json.loads restores unchanged, when the store calls of the set and of the
\* get succeed; set makes one store write for a serializable value and none
\* for another; delete makes one store delete.
C23_FaithfulSetThenGet ==
    (pc = "cache" /\ reqs.last.usable) =>
        /\ ( /\ reqs.last.op = "get" /\ ~reqs.last.failed
             /\ ClaimGiven(reqs.last.key) # <<>>
             /\ ClaimGiven(reqs.last.key)[1].wrote
             /\ ClaimJsonFaithful(ClaimGiven(reqs.last.key)[1].value) ) =>
              reqs.last.returned = ClaimGiven(reqs.last.key)[1].value
        /\ reqs.last.op = "set" =>
              reqs.last.calls =
                  (IF ClaimJsonSerializable(reqs.last.value) THEN 1 ELSE 0)
        /\ reqs.last.op = "delete" => reqs.last.calls = 1
        /\ reqs.last.raised = None

C23_Witness ==
    /\ pc = "cache" /\ reqs.last.usable
    /\ reqs.last.op = "get" /\ ~reqs.last.failed
    /\ ClaimGiven(reqs.last.key) # <<>>
    /\ ClaimGiven(reqs.last.key)[1].wrote
    /\ reqs.last.returned.kind = "dict"
    /\ Truthy(reqs.last.returned)
    /\ reqs.last.returned = ClaimGiven(reqs.last.key)[1].value
    /\ \E k \in CacheKeys : k # reqs.last.key /\ cache.store[k] # <<>>

(***************************************************************************)
(* The entry points: analyze_prompt of server.py (HTTP), websocket_endpoint *)
(* of websocket_server.py and the analyze_prompt tool of mcp_server.py.    *)
(* Two requests with the same body are followed; text holds the words of   *)
(* the body, reqs.pad the blanks before and after them.                    *)
(***************************************************************************)
\* settings.max_prompt_length, settings.min_prompt_length
MaxPromptLength == 5000
MinPromptLength == 5
\* AnalysisRequest.text: Field(max_length=5000)
TextMaxLength == 5000

\* AnalysisRequest(text=...): the constraints of the field count the
\* characters of the value as received, then the validator refuses a value
\* that is blank and strips the others
AnalysisRequestError(pad, words) ==
    IF \/ TextLen(words) + 2 * pad < 1
       \/ TextLen(words) + 2 * pad > TextMaxLength
       \/ words = <<>>
    THEN "ValidationError" ELSE None

\* HybridAnalyzer.analyze as one call: [raised, issues]
HybridAnalyze(t, use, reply, tags, fails) ==
    IF RuleError(fails) # None
    THEN [raised |-> RuleError(fails), issues |-> <<>>]
    ELSE IF ~use
    THEN [raised |-> None, issues |-> RuleAnalyze(t, tags, fails)]
    ELSE LET r == analyze_with_llm(reply, t)
         IN  IF r.raised # None THEN r
             ELSE [raised |-> None,
                   issues |-> _deduplicate_issues(
                                  RuleAnalyze(t, tags, fails) \o r.issues)]

\* result.model_dump(): a dict of the fields as Python values.  The key 1
\* is "issues" (one dict per issue, of which the id is kept: 8 hex digits
\* of a uuid4, here the draw and the position), 2 "quality_score" and 5
\* "analyzed_at", the datetime of the draw
AnalysisResultDump(is, sc, stamp) ==
    LET PyStr(n) == PyValue("str", n, <<>>)
        Item(k, v) == PyValue("item", 0, <<PyStr(k), v>>)
    IN  PyValue("dict", 0,
            << Item(1, PyValue("list", 0,
                   [k \in 1..Len(is) |->
                       PyValue("dict", 0, <<Item(1, PyStr(100 * stamp + k))>>)])),
               Item(2, PyValue("int", sc, <<>>)),
               Item(5, PyValue("datetime", stamp, <<>>)) >>)

InitServer ==
    /\ pc \in {"http", "ws", "mcp"}
    \* the words of the bodies: none, 2, 12, 4999 and 6004 characters (the
    \* body of 4999 characters is followed with a blank on each side, and
    \* both long ones where the request model is built: HTTP and WebSocket,
    \* without the collaborator)
    /\ text \in {<<>>, <<"it">>, <<"analyze", "data">>, Fill(1000), Fill(1201)}
    /\ use_llm \in (IF TextLen(text) > 12 THEN {FALSE} ELSE BOOLEAN)
    /\ nlp_fails = FALSE
    /\ pron_tags = NoTags
    /\ issues = <<>>
    /\ rule_issues = <<>>
    /\ llm_reply = NoReply
    /\ llm_issues = <<>>
    /\ result = <<>>
    /\ refused = <<>>
    /\ score = NoScore
    /\ raised = None
    /\ waited = 0
    /\ cancelled = FALSE
    /\ reqs \in {[pad |-> p, by |-> [i \in {"first", "second"} |->
                     [step |-> "new", status |-> "pending", text |-> <<>>,
                      analyzed |-> FALSE, cached |-> PyNone, issues |-> <<>>,
                      score |-> NoScore, stamp |-> 0, reply |-> NoReply,
                      raised |-> None, writes |-> 0, landed |-> FALSE,
                      failed |-> {}, after |-> FALSE]]] :
                   p \in (IF pc = "mcp" THEN {0}
                          ELSE IF TextLen(text) = 4999 THEN {1} ELSE {0, 1})}
    /\ pc = "mcp" => TextLen(text) <= 12
    /\ cache \in {[enabled |-> e, client |-> c,
                   store |-> [k \in CacheKeys |-> <<>>]] :
                   e \in (IF pc = "http" THEN BOOLEAN ELSE {TRUE}),
                   c \in (IF pc = "http" THEN {None, "redis"} ELSE {"redis"})}
    /\ ws \in {[bound |-> b] : b \in (IF pc = "ws" THEN BOOLEAN ELSE {FALSE})}

\* the request enters: validation, the length checks, the read of the cache
Receive(i) ==
    LET r == reqs.by[i]
        key == IF use_llm THEN "analysis:k2" ELSE "analysis:k1"
        End(status, exc) ==
            reqs' = [reqs EXCEPT !.by[i] = [r EXCEPT !.step = "done",
                                                     !.status = status,
                                                     !.raised = exc]]
    IN  /\ r.step = "new"
        /\ CASE pc = "http" ->
                  IF AnalysisRequestError(reqs.pad, text) # None
                  THEN End("422", None)
                  ELSE IF TextLen(text) > MaxPromptLength
                          \/ TextLen(text) < MinPromptLength
                  THEN End("400", None)
                  ELSE \E fails \in BOOLEAN :
                         LET out == CacheGet(cache, key, fails)
                         IN  IF out.raised # None
                             THEN End("500", None)
                             ELSE reqs' = [reqs EXCEPT !.by[i] =
                                      [r EXCEPT !.step = "got", !.text = text,
                                                !.cached = out.returned,
                                                !.failed = IF fails THEN {"get"}
                                                           ELSE {},
                                                !.after = \A j \in DOMAIN reqs.by :
                                                    j = i \/ reqs.by[j].step = "done"]]
             [] pc = "ws" ->
                  IF ~ws.bound THEN End("error", "NameError")
                  ELSE IF AnalysisRequestError(reqs.pad, text) # None
                  THEN End("closed", None)
                  ELSE reqs' = [reqs EXCEPT !.by[i] =
                                   [r EXCEPT !.step = "got", !.text = text]]
             [] OTHER ->
                  reqs' = [reqs EXCEPT !.by[i] =
                              [r EXCEPT !.step = "got", !.text = text]]
        /\ UNCHANGED <<pc, text, use_llm, issues, rule_issues, llm_reply,
                       llm_issues, nlp_fails, pron_tags, result, refused, score,
                       raised, waited, cancelled, cache, ws>>

\* the cached result is returned, or the analyzer and the scoring run on
\* the text of the request (the words of the body: r.text)
Analyze(i) ==
    LET r == reqs.by[i]
    IN  /\ r.step = "got"
        /\ IF Truthy(r.cached)
           THEN reqs' = [reqs EXCEPT !.by[i] =
                            [r EXCEPT !.step = "done", !.status = "200"]]
           ELSE \E reply \in {Reply("api_error", <<>>),
                              Reply("issues_list", <<Entry(TRUE, <<0>>, <<7>>,
                                  "vague", "critical", "m", "s", "high")>>)},
                   stamp \in {1, 2} :
                /\ use_llm \/ reply.kind = "api_error"
                /\ \E a \in {HybridAnalyze(text, use_llm, reply, pron_tags,
                                            nlp_fails)} :
                  LET done == [r EXCEPT !.analyzed = TRUE, !.stamp = stamp,
                                        !.reply = IF use_llm THEN reply
                                                  ELSE NoReply,
                                        !.issues = a.issues,
                                        !.score = calculate_quality_score(
                                                      text, a.issues)]
                  IN  reqs' = [reqs EXCEPT !.by[i] =
                           IF a.raised # None
                           THEN [r EXCEPT !.step = "done", !.analyzed = TRUE,
                                          !.status = IF pc = "http" THEN "500"
                                                     ELSE IF pc = "ws" THEN "closed"
                                                     ELSE "error_dict"]
                           ELSE IF pc = "http" THEN [done EXCEPT !.step = "computed"]
                           ELSE [done EXCEPT !.step = "done",
                                             !.status = IF pc = "ws" THEN "sent"
                                                        ELSE "returned"]]
        /\ UNCHANGED <<pc, text, use_llm, issues, rule_issues, llm_reply,
                       llm_issues, nlp_fails, pron_tags, result, refused, score,
                       raised, waited, cancelled, cache, ws>>

\* await cache_manager.set(cache_key, result.model_dump()); return result
Store(i) ==
    LET r == reqs.by[i]
        key == IF use_llm THEN "analysis:k2" ELSE "analysis:k1"
    IN  /\ r.step = "computed"
        /\ \E fails \in BOOLEAN :
             LET out == CacheSet(cache, key,
                                 AnalysisResultDump(r.issues, r.score, r.stamp),
                                 fails)
             IN  /\ cache' = [cache EXCEPT !.store = out.store]
                 /\ reqs' = [reqs EXCEPT !.by[i] =
                        [r EXCEPT !.step = "done",
                                  !.status = IF out.raised # None THEN "500"
                                             ELSE "200",
                                  !.writes = out.calls,
                                  !.landed = out.store # cache.store,
                                  !.failed = IF fails THEN r.failed \cup {"set"}
                                             ELSE r.failed]]
        /\ UNCHANGED <<pc, text, use_llm, issues, rule_issues, llm_reply,
                       llm_issues, nlp_fails, pron_tags, result, refused, score,
                       raised, waited, cancelled, ws>>

NextServer == \E i \in {"first", "second"} : Receive(i) \/ Analyze(i) \/ Store(i)

SpecServer == InitServer /\ [][NextServer]_vars

(***************************************************************************)
(* C21, C22, C24, C25, C29: the entry points.                              *)
(***************************************************************************)
\* the characters of the body as received
ClaimRawLen == TextLen(text) + 2 * reqs.pad
\* the request i has been answered
ClaimAnswered(i) == reqs.by[i].step = "done"

\* C24: an HTTP analyze request with empty text is answered 422, one with
\* a text of more than 5000 characters is answered 400, and neither reaches
\* the analyzer or the cache.
C24_EmptyIs422LongIs400 ==
    pc = "http" =>
        \A i \in DOMAIN reqs.by :
            (ClaimAnswered(i) /\ (ClaimRawLen = 0 \/ ClaimRawLen > 5000)) =>
                /\ reqs.by[i].status = (IF ClaimRawLen = 0 THEN "422" ELSE "400")
                /\ ~reqs.by[i].analyzed
                /\ reqs.by[i].writes = 0 /\ cache.store = [k \in CacheKeys |-> <<>>]

\* C25: at every entry point the text handed to the analyzer is non-empty
\* after trimming and between 5 and 5000 characters long.
C25_AnalyzedTextInBounds ==
    pc \in {"http", "ws", "mcp"} =>
        \A i \in DOMAIN reqs.by :
            reqs.by[i].analyzed =>
                /\ reqs.by[i].text # <<>>
                /\ TextLen(reqs.by[i].text) >= 5
                /\ TextLen(reqs.by[i].text) <= 5000

\* the cache cannot serve the request i: it is disabled, it has no client,
\* or a store call of the request raised
ClaimCacheDown(i) == ~Usable(cache) \/ reqs.by[i].failed # {}
\* the request i went through the validation of the HTTP entry point
ClaimAccepted200(i) ==
    ClaimAnswered(i) /\ reqs.by[i].status \notin {"422", "400"}
\* result.model_dump() of the request i
ClaimDump(i) ==
    AnalysisResultDump(reqs.by[i].issues, reqs.by[i].score, reqs.by[i].stamp)

\* C22: when the cache is disabled, not connected, or a cache operation
\* raises, get returns None, set and delete return without raising and
\* without writing, and analyze_prompt answers 200 with the issues and the
\* score the analyzer computes for the text.
C22_CacheBypassed ==
    pc = "http" =>
        /\ \A e \in BOOLEAN, cl \in {None, "redis"}, k \in CacheKeys,
              fails \in BOOLEAN, v \in {PyNone, ClaimDump("first")} :
              LET c == [enabled |-> e, client |-> cl, store |-> cache.store]
              IN  (~Usable(c) \/ fails) =>
                      /\ CacheGet(c, k, fails).returned = PyNone
                      /\ CacheGet(c, k, fails).raised = None
                      /\ CacheSet(c, k, v, fails).raised = None
                      /\ CacheSet(c, k, v, fails).store = c.store
                      /\ CacheDelete(c, k, fails).raised = None
                      /\ CacheDelete(c, k, fails).store = c.store
        /\ \A i \in DOMAIN reqs.by :
              (ClaimAccepted200(i) /\ ClaimCacheDown(i)) =>
                  /\ reqs.by[i].status = "200"
                  /\ reqs.by[i].cached = PyNone
                  /\ reqs.by[i].analyzed /\ ~reqs.by[i].landed
                  /\ reqs.by[i].issues =
                        HybridAnalyze(reqs.by[i].text, use_llm, reqs.by[i].reply,
                                      NoTags, FALSE).issues
                  /\ reqs.by[i].score =
                        calculate_quality_score(reqs.by[i].text, reqs.by[i].issues)

C22_Witness ==
    /\ pc = "http" /\ Usable(cache) /\ use_llm
    /\ ClaimAccepted200("first") /\ reqs.by["first"].failed = {"get", "set"}
    /\ reqs.by["first"].status = "200" /\ reqs.by["first"].issues # <<>>
    /\ reqs.by["first"].reply.kind = "issues_list"
    /\ ClaimAccepted200("second") /\ reqs.by["second"].status = "200"

\* C21: two concurrent analyze_prompt requests with the same text and flag
\* that both miss the cache both compute and both write, and the values
\* they write are equal, so that the entry is the same whichever write
\* lands last.
C21_BothWriteEqual ==
    ( /\ pc = "http" /\ Usable(cache)
      /\ \A i \in DOMAIN reqs.by :
            /\ ClaimAccepted200(i) /\ reqs.by[i].analyzed
            /\ reqs.by[i].failed = {} /\ ~reqs.by[i].after ) =>
        /\ \A i \in DOMAIN reqs.by : reqs.by[i].landed
        /\ ClaimDump("first") = ClaimDump("second")
        /\ \E k \in CacheKeys : cache.store[k] = JsonDumps(ClaimDump("first"))

\* C29: the result computed with use_llm=true while the collaborator fails
\* is written to the cache, and a later identical request is answered with
\* it without the analyzer being called again.
C29_DegradedResultCached ==
    (pc = "http" /\ use_llm /\ Usable(cache)) =>
        \A i, j \in DOMAIN reqs.by :
            ( /\ i # j /\ ClaimAccepted200(i) /\ reqs.by[i].status = "200"
              /\ reqs.by[i].analyzed /\ reqs.by[i].failed = {}
              /\ reqs.by[i].reply.kind \in FailureKinds ) =>
                /\ reqs.by[i].landed
                /\ cache.store["analysis:k2"] # <<>>
                /\ ( /\ ClaimAccepted200(j) /\ reqs.by[j].after
                     /\ reqs.by[j].failed = {} ) =>
                       ~reqs.by[j].analyzed /\ Truthy(reqs.by[j].cached)

(***************************************************************************)
(* WebSocketManager and websocket_endpoint (websocket_server.py).          *)
(* ws.slots is the entry table of the dict active_connections in insertion *)
(* order, a deleted entry leaving a hole (None); ws.by[c] is the endpoint of the  *)
(* client c with the iterator of its broadcast.  ws.bound tells whether    *)
(* the names the module uses without importing them (app, uuid, datetime,  *)
(* token_counter) are bound: as written they are not.                      *)
(***************************************************************************)
Clients == {"c1", "c2", "c3"}
\* the keys of active_connections
Registered(w) == {w.slots[k] : k \in 1..Len(w.slots)} \ {None}
\* del self.active_connections[client_id], when it is there
Unregister(slots, c) == [k \in 1..Len(slots) |-> IF slots[k] = c THEN None ELSE slots[k]]

InitWs ==
    /\ pc = "ws_manager"
    /\ text = <<>>
    /\ use_llm = FALSE
    /\ nlp_fails = FALSE
    /\ pron_tags = NoTags
    /\ issues = <<>>
    /\ rule_issues = <<>>
    /\ llm_reply = NoReply
    /\ llm_issues = <<>>
    /\ result = <<>>
    /\ refused = <<>>
    /\ score = NoScore
    /\ raised = None
    /\ waited = 0
    /\ cancelled = FALSE
    /\ reqs = <<>>
    /\ cache = <<>>
    /\ ws \in {[bound |-> b, slots |-> <<>>,
                by |-> [c \in Clients |->
                    [state |-> "idle", pos |-> 0, used |-> 0, left |-> 0,
                     target |-> "", disconnected |-> <<>>, start |-> {},
                     sent |-> {}, removed |-> {}, skipped |-> {},
                     finished |-> FALSE,
                     error |-> None]]] : b \in BOOLEAN}

\* the endpoint starts: client_id = str(uuid.uuid4()), then connect()
WsConnect(c) ==
    /\ ws.by[c].state = "idle"
    /\ ws' = IF ~ws.bound
             THEN [ws EXCEPT !.by[c].state = "crashed", !.by[c].error = "NameError"]
             ELSE [ws EXCEPT !.slots = Append(ws.slots, c), !.by[c].state = "open"]
    /\ UNCHANGED <<pc, text, use_llm, issues, rule_issues, llm_reply, llm_issues,
                   nlp_fails, pron_tags, result, refused, score, raised, waited,
                   cancelled, reqs, cache>>

\* receive_text raises (the client went away, or sent what json.loads or
\* AnalysisRequest refuse): except ..., finally: disconnect(client_id)
WsExit(c) ==
    /\ ws.by[c].state = "open"
    /\ ws' = [ws EXCEPT !.slots = Unregister(ws.slots, c), !.by[c].state = "closed"]
    /\ UNCHANGED <<pc, text, use_llm, issues, rule_issues, llm_reply, llm_issues,
                   nlp_fails, pron_tags, result, refused, score, raised, waited,
                   cancelled, reqs, cache>>

\* the for statement asks the iterator of c for the next item, in the
\* registry w: RuntimeError when the size of the dict is not the one the
\* iterator started with, or when it has given all its items and an entry
\* is left (the for is outside the try, so the error leaves
\* broadcast_analysis and the endpoint ends: except Exception, finally:
\* disconnect); the next entry that is not a hole, whose send is awaited;
\* or the end, followed by the clean-up loop
BroadcastNext(w, c) ==
    LET b == w.by[c]
        rest == {k \in (b.pos + 1)..Len(w.slots) : w.slots[k] # None}
        next == CHOOSE k \in rest : \A j \in rest : k <= j
        gone == {b.disconnected[k] : k \in 1..Len(b.disconnected)}
        Fail == [w EXCEPT !.slots = Unregister(w.slots, c),
                          !.by[c].state = "closed",
                          !.by[c].error = "RuntimeError"]
    IN  IF Cardinality(Registered(w)) # b.used THEN Fail
        ELSE IF rest = {}
        THEN [w EXCEPT
                !.slots = [k \in 1..Len(w.slots) |->
                              IF w.slots[k] \in gone THEN None ELSE w.slots[k]],
                !.by[c].state = "open", !.by[c].finished = TRUE,
                !.by[c].removed = gone \cap Registered(w),
                !.by[c].skipped = Registered(w) \ b.sent]
        ELSE IF b.left = 0 THEN Fail
        ELSE [w EXCEPT !.by[c].state = "sending", !.by[c].pos = next,
                       !.by[c].left = b.left - 1,
                       !.by[c].target = w.slots[next]]

\* a message of c was analyzed (c1 and c2 send prompts, c3 listens):
\* broadcast_analysis builds the message, the
\* for statement creates the iterator of active_connections.items() and
\* takes its first item
BroadcastStart(c) ==
    /\ c \in {"c1", "c2"}
    /\ ws.by[c].state = "open"
    /\ ws' = BroadcastNext(
                 [ws EXCEPT !.by[c] =
                     [@ EXCEPT !.pos = 0,
                               !.used = Cardinality(Registered(ws)),
                               !.left = Cardinality(Registered(ws)),
                               !.disconnected = <<>>, !.start = Registered(ws),
                               !.sent = {}, !.removed = {}, !.skipped = {},
                               !.finished = FALSE]], c)
    /\ UNCHANGED <<pc, text, use_llm, issues, rule_issues, llm_reply, llm_issues,
                   nlp_fails, pron_tags, result, refused, score, raised, waited,
                   cancelled, reqs, cache>>

\* await websocket.send_text(...) ends: it returns, or it raises and the
\* client is noted in disconnected; the loop goes on to the next item
BroadcastSent(c) ==
    /\ ws.by[c].state = "sending"
    /\ \E fails \in BOOLEAN :
         ws' = BroadcastNext(
                   [ws EXCEPT !.by[c] =
                       [@ EXCEPT !.sent = @ \cup {ws.by[c].target},
                                 !.disconnected = IF fails
                                                  THEN Append(@, ws.by[c].target)
                                                  ELSE @]], c)
    /\ UNCHANGED <<pc, text, use_llm, issues, rule_issues, llm_reply, llm_issues,
                   nlp_fails, pron_tags, result, refused, score, raised, waited,
                   cancelled, reqs, cache>>

NextWs ==
    \E c \in Clients :
        \/ WsConnect(c) \/ WsExit(c)
        \/ BroadcastStart(c) \/ BroadcastSent(c)

SpecWs == InitWs /\ [][NextWs]_vars

(***************************************************************************)
(* C30: the broadcast and the registry of connections.                     *)
(***************************************************************************)
\* C30: a broadcast sends the result to every registered connection and
\* then removes exactly those whose send raised; a connect or disconnect of
\* another client during a send makes no broadcast fail or skip a client;
\* and a client whose endpoint has ended is no longer registered.
C30_BroadcastReachesAll ==
    pc = "ws_manager" =>
        \A c \in Clients :
            /\ ws.by[c].error = None
            /\ ws.by[c].finished =>
                  /\ ws.by[c].skipped = {}
                  /\ ws.by[c].removed \subseteq
                        {ws.by[c].disconnected[k] :
                            k \in 1..Len(ws.by[c].disconnected)}
            /\ ws.by[c].state \in {"closed", "crashed"} => c \notin Registered(ws)

====
